---- MODULE Spec2Model ----
(***************************************************************************)
(* Model of the Gmail-Analyzer scripts.                                    *)
(*                                                                         *)
(*   analyze_senders.py : extract_email_address, extract_sender_name,      *)
(*                        analyze_senders                                  *)
(*   delete_updates.py  : parse_email_date, filter_updates_before_date,    *)
(*                        delete_emails_batch, the cutoff prompt of main   *)
(*                                                                         *)
(* A Python str is a sequence of one-character strings.  Each function is  *)
(* run by its own specification (SpecExtract, SpecAnalyze, SpecFilter,     *)
(* SpecDelete); the variables of the other functions stay idle.            *)
(***************************************************************************)
EXTENDS Integers, Sequences, FiniteSets, TLC

VARIABLES
    pc,                 \* which function runs and where it stands
    from_field,         \* extract_*: the argument
    identity,           \* extract_*: [address, displayName] returned
    emails,             \* analyze_senders: the list of email dicts
    top_n,              \* analyze_senders: the argument top_n
    top_senders,        \* analyze_senders: the list returned
    mails,              \* filter_updates_before_date: the list of email dicts
    cutoff_date,        \* filter_updates_before_date: the cutoff datetime
    k,                  \* filter_updates_before_date: loop position
    emails_to_delete,   \* filter_updates_before_date: the list built
    email_ids,          \* delete_emails_batch: the ids
    batch_size,         \* delete_emails_batch: the argument batch_size
    dry_run,            \* delete_emails_batch: the argument dry_run
    i,                  \* delete_emails_batch: loop variable of range()
    deleted_count,      \* delete_emails_batch: local
    failed_count,       \* delete_emails_batch: local
    calls,              \* the bodies {'ids': batch} sent to batchDelete, in order
    ret                 \* delete_emails_batch: the value returned

extVars == <<from_field, identity>>
aggVars == <<emails, top_n, top_senders>>
fltVars == <<mails, cutoff_date, k, emails_to_delete>>
delVars == <<email_ids, batch_size, dry_run, i, deleted_count, failed_count, calls, ret>>
vars == <<pc, extVars, aggVars, fltVars, delVars>>

----------------------------------------------------------------------------
(* Bounds of the model.                                                    *)

MaxLen == 4        \* length of an arbitrary header
MaxName == 5       \* length of the name segment before '<'
MaxLocal == 3      \* length of the local part of a bare address
MaxEmails == 4     \* emails given to analyze_senders
MaxTopN == 3       \* largest top_n
MaxMails == 3      \* emails given to filter_updates_before_date
MaxIds == 5        \* ids given to delete_emails_batch
MaxBatch == 3      \* largest batch_size

----------------------------------------------------------------------------
(* Python str operations.                                                  *)

Upper == {"A", "B", "X", "C"}
Letters == {"a", "b", "x", "c"} \cup Upper
Whitespace == {" "}
\* \w of the re module
IsWord(ch) == ch \in Letters
\* the class [\w\.-]
LocalChars == Letters \cup {".", "-"}

SetMin(S) == CHOOSE m \in S : \A n \in S : m <= n
SetMax(S) == CHOOSE m \in S : \A n \in S : m >= n

\* s[a-1:b] of Python for 1 <= a, b <= Len(s): the characters a..b
Slice(s, a, b) == [n \in 1..(b - a + 1) |-> s[a + n - 1]]

LowerChar(ch) ==
    CASE ch = "A" -> "a"
      [] ch = "B" -> "b"
      [] ch = "X" -> "x"
      [] ch = "C" -> "c"
      [] OTHER -> ch

\* str.lower()
Lower(s) == [n \in 1..Len(s) |-> LowerChar(s[n])]

\* str.strip(chars): drop every leading and trailing character that is in chars
StripChars(s, chars) ==
    LET keep == {n \in 1..Len(s) : s[n] \notin chars}
    IN IF keep = {} THEN <<>> ELSE Slice(s, SetMin(keep), SetMax(keep))

\* str.strip()
Strip(s) == StripChars(s, Whitespace)

\* the end e of the longest run s[a..e] of characters of S; a - 1 when s[a] is
\* not one
RunEnd(s, a, S) ==
    SetMax({e \in (a - 1)..Len(s) : \A n \in a..e : s[n] \in S})

----------------------------------------------------------------------------
(* extract_email_address and extract_sender_name (analyze_senders.py).     *)

\* re.search(r'<([^>]+)>', s): the places a match can start
AngleStarts(s) ==
    {a \in 1..Len(s) :
        /\ s[a] = "<"
        /\ \E b \in (a + 2)..Len(s) :
              s[b] = ">" /\ \A n \in (a + 1)..(b - 1) : s[n] # ">"}

\* match.group(1) of the leftmost match
AngleGroup(s) ==
    LET a == SetMin(AngleStarts(s))
        b == SetMin({n \in (a + 1)..Len(s) : s[n] = ">"})
    IN Slice(s, a + 1, b - 1)

\* re.search(r'[\w\.-]+@[\w\.-]+\.\w+', s): where the match starting at a
\* ends, 0 when none starts there.  The local part is greedy and must meet
\* '@'; the domain is greedy and backtracks to its last '.' that a \w follows.
EmailEnd(s, a) ==
    LET p == RunEnd(s, a, LocalChars) + 1
    IN IF p = a \/ p > Len(s) \/ s[p] # "@" THEN 0
       ELSE LET r == RunEnd(s, p + 1, LocalChars)
                dots == {q \in (p + 2)..(r - 1) : s[q] = "." /\ IsWord(s[q + 1])}
            IN IF dots = {} THEN 0
               ELSE RunEnd(s, SetMax(dots) + 1, Letters)

EmailStarts(s) == {a \in 1..Len(s) : EmailEnd(s, a) > 0}

\* email_match.group(0) of the leftmost match
EmailGroup(s) ==
    LET a == SetMin(EmailStarts(s))
    IN Slice(s, a, EmailEnd(s, a))

extract_email_address(s) ==
    IF AngleStarts(s) # {} THEN Lower(Strip(AngleGroup(s)))
    ELSE IF EmailStarts(s) # {} THEN Lower(Strip(EmailGroup(s)))
    ELSE Lower(Strip(s))

\* re.search(r'^([^<]+)<', s) matches when the first '<' is not the first
\* character; group(1) is everything before it
NameMatches(s) ==
    /\ \E n \in 1..Len(s) : s[n] = "<"
    /\ s[1] # "<"

NameGroup(s) == Slice(s, 1, SetMin({n \in 1..Len(s) : s[n] = "<"}) - 1)

\* CleanName with both quotes stripped in one call, .strip('"\'')
CleanNameOneCall(g) == StripChars(Strip(g), {"\"", "'"})

\* match.group(1).strip().strip('"').strip("'")
CleanName(g) == StripChars(StripChars(Strip(g), {"\""}), {"'"})

extract_sender_name(s) ==
    IF NameMatches(s) /\ CleanName(NameGroup(s)) # <<>>
    THEN CleanName(NameGroup(s))
    ELSE extract_email_address(s)

\* the Identity of the specification: both extractions of one header
extract(s) ==
    [address |-> extract_email_address(s), displayName |-> extract_sender_name(s)]

----------------------------------------------------------------------------
(* The headers given to the extraction.                                    *)

\* every string over S of length at most n
Strings(S, n) == UNION {[1..m -> S] : m \in 0..n}

Alphabet == {"a", "B", " ", "\"", "'", "<", ">", "@", ".", "+"}
NameAlphabet == {"B", " ", "\"", "'"}
LocalAlphabet == {"a", "B", ".", "+", "-"}

Inners ==
    { <<"a", "@", "x", ".", "c">>,
      <<" ", "A", "@", "X", ".", "C", " ">>,
      <<"B">>,
      <<" ">>,
      <<"a", " ", "<", "b">> }

Tails == { <<>>, <<" ">>, <<">">>, <<"<", "b", ">">> }

Domains == { <<"x", ".", "c">>, <<"X", ".", "C">>, <<"x", "-", "b", ".", "c">> }

Pads == { <<>>, <<" ">> }

\* name <inner> tail
BracketHeaders ==
    {name \o <<"<">> \o inner \o <<">">> \o tail :
        name \in Strings(NameAlphabet, MaxName), inner \in Inners, tail \in Tails}

\* local@domain, possibly padded with whitespace
BareHeaders ==
    {l \o local \o <<"@">> \o domain \o r :
        l \in Pads, local \in Strings(LocalAlphabet, MaxLocal) \ {<<>>},
        domain \in Domains, r \in Pads}

Headers == Strings(Alphabet, MaxLen) \cup BracketHeaders \cup BareHeaders

----------------------------------------------------------------------------
(* Idle values of the variables a specification does not use.              *)

NoIdentity == [address |-> <<>>, displayName |-> <<>>]
NoDate == [kind |-> "none", wall |-> 0, off |-> 0]

ExtIdle == from_field = <<>> /\ identity = NoIdentity
AggIdle == emails = <<>> /\ top_n = 0 /\ top_senders = <<>>
FltIdle == mails = <<>> /\ cutoff_date = NoDate /\ k = 0 /\ emails_to_delete = <<>>
DelIdle ==
    /\ email_ids = <<>> /\ batch_size = 0 /\ dry_run = TRUE /\ i = 0
    /\ deleted_count = 0 /\ failed_count = 0 /\ calls = <<>> /\ ret = 0

----------------------------------------------------------------------------
(* SpecExtract: one header is given to both extraction functions.          *)

InitExtract ==
    /\ pc = "extract"
    /\ from_field \in Headers
    /\ identity = NoIdentity
    /\ AggIdle /\ FltIdle /\ DelIdle

Extract ==
    /\ pc = "extract"
    /\ identity' = extract(from_field)
    /\ pc' = "extracted"
    /\ UNCHANGED <<from_field, aggVars, fltVars, delVars>>

NextExtract == Extract

SpecExtract == InitExtract /\ [][NextExtract]_vars

----------------------------------------------------------------------------
(* Properties of the extraction (C5, C6, C7).                              *)

RECURSIVE PeelLeft(_, _)
PeelLeft(t, S) == IF t # <<>> /\ Head(t) \in S THEN PeelLeft(Tail(t), S) ELSE t

RECURSIVE PeelRight(_, _)
PeelRight(t, S) ==
    IF t # <<>> /\ t[Len(t)] \in S THEN PeelRight(SubSeq(t, 1, Len(t) - 1), S) ELSE t

\* t without its leading and trailing characters of S
Peel(t, S) == PeelRight(PeelLeft(t, S), S)

Trimmed(t) == Peel(t, {" "})

\* t without one layer of surrounding quotes, when it has one
OneLayer(t) ==
    IF Len(t) >= 2 /\ t[1] = t[Len(t)] /\ t[1] \in {"\"", "'"}
    THEN SubSeq(t, 2, Len(t) - 1)
    ELSE t

HasChar(s, ch) == \E n \in 1..Len(s) : s[n] = ch
FirstIndex(s, ch) == CHOOSE n \in 1..Len(s) : s[n] = ch /\ \A m \in 1..(n - 1) : s[m] # ch

\* name <addr> : the header ends with the '>' that closes its first '<', and
\* something stands between the two
IsBracketForm(s) ==
    /\ HasChar(s, "<")
    /\ s[Len(s)] = ">"
    /\ Len(s) > FirstIndex(s, "<") + 1
    /\ \A n \in (FirstIndex(s, "<") + 1)..(Len(s) - 1) : s[n] # ">"

FormName(s) == SubSeq(s, 1, FirstIndex(s, "<") - 1)
FormAddr(s) == SubSeq(s, FirstIndex(s, "<") + 1, Len(s) - 1)

NoUpper(s) == \A n \in 1..Len(s) : s[n] \notin Upper

IsQuote(ch) == ch \in {"\"", "'"}

\* a name with a letter in it, either wrapped in a pair of equal quotes or
\* with no quote at either end
IsWrappedName(t) ==
    /\ \E n \in 1..Len(t) : IsWord(t[n])
    /\ \/ Len(t) >= 2 /\ IsQuote(t[1]) /\ t[1] = t[Len(t)]
       \/ ~IsQuote(t[1]) /\ ~IsQuote(t[Len(t)])

\* C5 as stated: for a header name <addr>, address is the lowercased, trimmed
\* text between the brackets and displayName is the text before the first
\* '<', trimmed and then stripped of ONE layer of surrounding quotes.
C5_OneLayerOfQuotes ==
    (pc = "extracted" /\ IsBracketForm(from_field)
        /\ IsWrappedName(Trimmed(FormName(from_field)))
        /\ OneLayer(Trimmed(FormName(from_field))) # <<>>)
    => /\ identity.address = Lower(Trimmed(FormAddr(from_field)))
       /\ identity.displayName = OneLayer(Trimmed(FormName(from_field)))

\* C5 amended: for a header name <addr>, address is the lowercased, trimmed
\* text between the brackets (it holds no upper-case letter), and displayName
\* is the text before the first '<', trimmed, then stripped of every leading
\* and trailing double quote, then of every leading and trailing single
\* quote; when nothing is left of the name, displayName is the address.
C5_QuotesStripped ==
    (pc = "extracted" /\ IsBracketForm(from_field))
    => LET name == Peel(Peel(Trimmed(FormName(from_field)), {"\""}), {"'"})
       IN /\ identity.address = Lower(Trimmed(FormAddr(from_field)))
          /\ NoUpper(identity.address)
          /\ identity.displayName = IF name # <<>> THEN name ELSE identity.address

\* C5 witness: a quoted name before a bracketed address with an upper-case letter
C5_Witness ==
    /\ pc = "extracted"
    /\ IsBracketForm(from_field)
    /\ FormName(from_field) = <<"\"", "B", "\"", " ">>
    /\ identity.displayName = <<"B">>
    /\ ~NoUpper(FormAddr(from_field))
    /\ identity.address = <<"a", "@", "x", ".", "c">>

IsAddrLocalChar(ch) == IsWord(ch) \/ ch \in {".", "+", "-"}
IsAddrDomainChar(ch) == IsWord(ch) \/ ch \in {".", "-"}

\* local@domain between optional whitespace: the local part starts and ends
\* with a letter, the domain is letters and hyphens in dot-separated labels
IsBareAddress(s) ==
    LET t == Trimmed(s)
    IN /\ HasChar(t, "@")
       /\ LET at == FirstIndex(t, "@")
              local == SubSeq(t, 1, at - 1)
              domain == SubSeq(t, at + 1, Len(t))
          IN /\ local # <<>> /\ domain # <<>>
             /\ \A n \in 1..Len(local) : IsAddrLocalChar(local[n])
             /\ IsWord(local[1]) /\ IsWord(local[Len(local)])
             /\ \A n \in 1..Len(domain) : IsAddrDomainChar(domain[n])
             /\ IsWord(domain[1]) /\ IsWord(domain[Len(domain)])
             /\ HasChar(domain, ".")
             /\ \A n \in 1..(Len(domain) - 1) : ~(domain[n] = "." /\ domain[n + 1] = ".")

NoAngle(s) == ~HasChar(s, "<") /\ ~HasChar(s, ">")

\* C6 as stated: for a header without angle brackets that is a bare address,
\* or that holds no email-like pattern, address and displayName both equal
\* the lowercased, trimmed header.
C6_BareAddressKept ==
    (pc = "extracted" /\ NoAngle(from_field)
        /\ (IsBareAddress(from_field) \/ EmailStarts(from_field) = {}))
    => /\ identity.address = Lower(Trimmed(from_field))
       /\ identity.displayName = Lower(Trimmed(from_field))

\* C7 as stated, for the inputs analyze_senders does not skip: extraction of
\* a non-empty string returns an Identity whose displayName is not empty.
C7_DisplayNameNonEmpty ==
    (pc = "extracted" /\ from_field # <<>>) => identity.displayName # <<>>

----------------------------------------------------------------------------
(* analyze_senders (analyze_senders.py).                                   *)
(* An email dict is [has_from, from]: has_from tells whether the key       *)
(* 'from' is present.  sender_info, a dict, is the sequence of its items   *)
(* [email, name, count] in insertion order.                                *)

\* email.get('from', '')
GetFrom(email) == IF email.has_from THEN email.from ELSE <<>>

\* AddSender with the name overwritten by every later header of the address
AddSenderLastName(sender_info, email) ==
    LET ff == GetFrom(email)
        email_addr == extract_email_address(ff)
        name == extract_sender_name(ff)
    IN IF ff = <<>> THEN sender_info
       ELSE IF \E n \in 1..Len(sender_info) : sender_info[n].email = email_addr
       THEN [n \in 1..Len(sender_info) |->
                IF sender_info[n].email = email_addr
                THEN [sender_info[n] EXCEPT !.count = @ + 1, !.name = name]
                ELSE sender_info[n]]
       ELSE Append(sender_info, [email |-> email_addr, name |-> name, count |-> 1])

\* AddSender without the test that skips an empty 'from'
AddSenderNoSkip(sender_info, email) ==
    LET ff == GetFrom(email)
        email_addr == extract_email_address(ff)
        name == extract_sender_name(ff)
    IN IF \E n \in 1..Len(sender_info) : sender_info[n].email = email_addr
       THEN [n \in 1..Len(sender_info) |->
                IF sender_info[n].email = email_addr
                THEN [sender_info[n] EXCEPT !.count = @ + 1]
                ELSE sender_info[n]]
       ELSE Append(sender_info, [email |-> email_addr, name |-> name, count |-> 1])

\* one pass of the loop body over sender_info
AddSender(sender_info, email) ==
    LET ff == GetFrom(email)
        email_addr == extract_email_address(ff)
        name == extract_sender_name(ff)
    IN IF ff = <<>> THEN sender_info
       ELSE IF \E n \in 1..Len(sender_info) : sender_info[n].email = email_addr
       THEN [n \in 1..Len(sender_info) |->
                IF sender_info[n].email = email_addr
                THEN [sender_info[n] EXCEPT !.count = @ + 1]
                ELSE sender_info[n]]
       ELSE Append(sender_info, [email |-> email_addr, name |-> name, count |-> 1])

\* sender_info after the loop over the first n emails
RECURSIVE SenderInfo(_, _)
SenderInfo(es, n) ==
    IF n = 0 THEN <<>> ELSE AddSender(SenderInfo(es, n - 1), es[n])

\* InsertByCount of a sort that is not stable: x goes before its equals
InsertByCountUnstable(sorted, x) ==
    LET before == Cardinality({n \in 1..Len(sorted) : sorted[n].count > x.count})
    IN SubSeq(sorted, 1, before) \o <<x>> \o SubSeq(sorted, before + 1, Len(sorted))

\* the sorted list with item x put in: behind every item whose count is at
\* least x.count, before the others
InsertByCount(sorted, x) ==
    LET before == Cardinality({n \in 1..Len(sorted) : sorted[n].count >= x.count})
    IN SubSeq(sorted, 1, before) \o <<x>> \o SubSeq(sorted, before + 1, Len(sorted))

\* sorted(items, key=count, reverse=True): stable, equal counts keep their order
RECURSIVE SortedByCount(_)
SortedByCount(items) ==
    IF items = <<>> THEN <<>>
    ELSE InsertByCount(SortedByCount(SubSeq(items, 1, Len(items) - 1)), items[Len(items)])

\* s[:n] of Python, n of either sign
SliceTo(s, n) ==
    IF n >= 0 THEN SubSeq(s, 1, IF n < Len(s) THEN n ELSE Len(s))
    ELSE SubSeq(s, 1, IF Len(s) + n > 0 THEN Len(s) + n ELSE 0)

analyze_senders(es, n) == SliceTo(SortedByCount(SenderInfo(es, Len(es))), n)

\* the 'from' fields of the emails analysed
FromFields ==
    { <<"A", "b", " ", "<", "a", "@", "x", ".", "c", ">">>,
      <<"a", "@", "x", ".", "c">>,
      <<"B", " ", "<", "b", "@", "x", ".", "c", ">">>,
      <<"\"", "A", "x", "\"", " ", "<", "A", "@", "X", ".", "C", ">">>,
      <<"c", "@", "x", ".", "c">>,
      <<>> }

EmailDicts ==
    {[has_from |-> TRUE, from |-> f] : f \in FromFields}
        \cup {[has_from |-> FALSE, from |-> <<>>]}

InitAnalyze ==
    /\ pc = "analyze"
    /\ emails \in UNION {[1..m -> EmailDicts] : m \in 0..MaxEmails}
    /\ top_n \in (0 - 1)..MaxTopN
    /\ top_senders = <<>>
    /\ ExtIdle /\ FltIdle /\ DelIdle

\* the call returns; no path of the function raises
Analyze ==
    /\ pc = "analyze"
    /\ top_senders' = analyze_senders(emails, top_n)
    /\ pc' = "analyzed"
    /\ UNCHANGED <<emails, top_n, extVars, fltVars, delVars>>

NextAnalyze == Analyze

SpecAnalyze == InitAnalyze /\ [][NextAnalyze]_vars

----------------------------------------------------------------------------
(* Properties of analyze_senders (C1, C2, C3, C4).                         *)

\* the positions of the headers that are not skipped
Kept == {n \in 1..Len(emails) : GetFrom(emails[n]) # <<>>}
\* the address and the name extracted from each of the headers analysed
AddressOf == [f \in FromFields |-> extract_email_address(f)]
NameOf == [f \in FromFields |-> extract_sender_name(f)]
\* the address of each header
AddrAt == [n \in 1..Len(emails) |-> AddressOf[GetFrom(emails[n])]]
\* the positions of the headers not skipped that map to address a
HeadersOf(addr, a) == {n \in Kept : addr[n] = a}

RECURSIVE SumCounts(_)
SumCounts(rs) == IF rs = <<>> THEN 0 ELSE Head(rs).count + SumCounts(Tail(rs))

\* C1: for top_n > 0 the result is the first top_n sender records in the
\* order count descending, equal counts in order of first insertion: the
\* record at rank r is the address that exactly r - 1 addresses rank before
\* (a ranks before b with more headers, or with as many and seen first).
C1_RankedTopN ==
    (pc = "analyzed" /\ top_n > 0)
    => LET addr == AddrAt
           addresses == {addr[n] : n \in Kept}
           count == [a \in addresses |-> Cardinality(HeadersOf(addr, a))]
           first == [a \in addresses |-> SetMin(HeadersOf(addr, a))]
           before(a) ==
               {b \in addresses :
                   \/ count[b] > count[a]
                   \/ count[b] = count[a] /\ first[b] < first[a]}
       IN /\ Len(top_senders) =
               IF top_n < Cardinality(addresses) THEN top_n ELSE Cardinality(addresses)
          /\ \A r \in 1..Len(top_senders) :
               /\ top_senders[r].email \in addresses
               /\ Cardinality(before(top_senders[r].email)) = r - 1

\* C1 witness: three senders cut to two; the sort moved a later sender to the
\* front and left two senders of equal count in insertion order
C1_Witness ==
    /\ pc = "analyzed"
    /\ top_n = 2
    /\ Len(top_senders) = 2
    /\ LET addr == AddrAt
           addresses == {addr[n] : n \in Kept}
       IN /\ Cardinality(addresses) = 3
          /\ top_senders[1].count = 2
          /\ SetMin(HeadersOf(addr, top_senders[1].email))
                > SetMin(HeadersOf(addr, top_senders[2].email))
          /\ \E a \in addresses :
                /\ a # top_senders[2].email
                /\ Cardinality(HeadersOf(addr, a)) = top_senders[2].count

\* C2: the name of a sender record is the name extracted from the first
\* header, among those not skipped, that maps to the record's address.
C2_FirstNameWins ==
    pc = "analyzed"
    => LET addr == AddrAt
       IN \A r \in 1..Len(top_senders) :
             /\ HeadersOf(addr, top_senders[r].email) # {}
             /\ top_senders[r].name =
                   NameOf[GetFrom(emails[SetMin(HeadersOf(addr, top_senders[r].email))])]

\* C2 witness: a later header of the same address carries another name
C2_Witness ==
    /\ pc = "analyzed"
    /\ Len(top_senders) >= 1
    /\ \E n \in HeadersOf(AddrAt, top_senders[1].email) :
          /\ NameOf[GetFrom(emails[n])] # top_senders[1].name
          /\ n > SetMin(HeadersOf(AddrAt, top_senders[1].email))

\* C3 as stated: with top_n <= 0 the call reports an error and returns no
\* result; with top_n > 0 it returns, and returns the empty list for no email.
C3_ErrorUnlessTopNPositive ==
    /\ top_n <= 0 => pc # "analyzed"
    /\ (pc = "analyzed" /\ top_n > 0 /\ emails = <<>>) => top_senders = <<>>

\* C4: when top_n is at least the number of distinct lowercased addresses, the
\* result has exactly one record for each of them, the count of a record is
\* the number of non-empty headers of its address, and the counts add up to
\* the number of non-empty headers.
C4_CountsPerAddress ==
    LET addr == AddrAt
        addresses == {addr[n] : n \in Kept}
    IN (pc = "analyzed" /\ top_n >= Cardinality(addresses))
       => /\ Len(top_senders) = Cardinality(addresses)
          /\ {top_senders[r].email : r \in 1..Len(top_senders)} = addresses
          /\ \A r \in 1..Len(top_senders) :
               /\ NoUpper(top_senders[r].email)
               /\ top_senders[r].count = Cardinality(HeadersOf(addr, top_senders[r].email))
          /\ SumCounts(top_senders) = Cardinality(Kept)

\* C4 witness: an empty header, an email without 'from', and two headers
\* whose addresses differ only in case, counted in one record
C4_Witness ==
    /\ pc = "analyzed"
    /\ Len(top_senders) = 1
    /\ top_senders[1].count = 2
    /\ top_n >= 1
    /\ \E n \in 1..Len(emails) : ~emails[n].has_from
    /\ \E n \in 1..Len(emails) : emails[n].has_from /\ emails[n].from = <<>>
    /\ \E m, n \in Kept :
          /\ GetFrom(emails[m]) = <<"a", "@", "x", ".", "c">>
          /\ HasChar(GetFrom(emails[n]), "X")

----------------------------------------------------------------------------
(* parse_email_date, filter_updates_before_date and the cutoff of main     *)
(* (delete_updates.py).                                                    *)
(* A 'date' string is [kind, wall, zone]: kind "rfc" for an RFC 2822 date  *)
(* with wall-clock hour wall and zone text zone ("" when it has none),     *)
(* kind "bad" for anything parsedate_to_datetime rejects, the empty        *)
(* default of email.get('date', '') included.  A datetime is               *)
(* [kind, wall, off]: "naive", "aware" with UTC offset off, or "none" for  *)
(* Python's None.                                                          *)

Zones == {"", "-0000", "+0000", "+0200"}

ZoneOffset(z) == IF z = "+0200" THEN 2 ELSE 0

\* parsedate_to_datetime: no zone and -0000 give a naive datetime, any other
\* zone an aware one; parse_email_date turns the exception into None
parse_email_date(date_str) ==
    IF date_str.kind = "bad" THEN NoDate
    ELSE IF date_str.zone \in {"", "-0000"}
    THEN [kind |-> "naive", wall |-> date_str.wall, off |-> 0]
    ELSE [kind |-> "aware", wall |-> date_str.wall, off |-> ZoneOffset(date_str.zone)]

\* main: datetime.strptime(date_input, "%Y-%m-%d").replace(tzinfo=None),
\* midnight of the day, naive
CutoffOfDay(day) == [kind |-> "naive", wall |-> 24 * day, off |-> 0]

\* a < b of datetime raises TypeError when one is naive and the other aware
CompareRaises(a, b) == a.kind # b.kind

\* a < b of two datetimes that can be compared
Earlier(a, b) == (a.wall - a.off) < (b.wall - b.off)

DateStrings ==
    {[kind |-> "bad", wall |-> 0, zone |-> ""]}
        \cup {[kind |-> "rfc", wall |-> w, zone |-> z] : w \in {23, 47}, z \in Zones}

LabelSets == {{"INBOX"}, {"CATEGORY_UPDATES", "INBOX"}}

MailDicts == {[labels |-> l, date |-> d] : l \in LabelSets, d \in DateStrings}

InitFilter ==
    /\ pc = "filter"
    /\ mails \in UNION {[1..m -> MailDicts] : m \in 0..MaxMails}
    /\ cutoff_date \in {CutoffOfDay(1), CutoffOfDay(2)}
    /\ k = 1
    /\ emails_to_delete = <<>>
    /\ ExtIdle /\ AggIdle /\ DelIdle

\* 'CATEGORY_UPDATES' not in labels: continue
FilterSkipLabel ==
    /\ pc = "filter" /\ k <= Len(mails)
    /\ "CATEGORY_UPDATES" \notin mails[k].labels
    /\ k' = k + 1
    /\ UNCHANGED <<pc, mails, cutoff_date, emails_to_delete, extVars, aggVars, delVars>>

\* email_date is None: the test is false
FilterSkipUnparsed ==
    /\ pc = "filter" /\ k <= Len(mails)
    /\ "CATEGORY_UPDATES" \in mails[k].labels
    /\ parse_email_date(mails[k].date).kind = "none"
    /\ k' = k + 1
    /\ UNCHANGED <<pc, mails, cutoff_date, emails_to_delete, extVars, aggVars, delVars>>

\* email_date < cutoff_date is evaluated and the email appended when it holds
FilterCompare ==
    /\ pc = "filter" /\ k <= Len(mails)
    /\ "CATEGORY_UPDATES" \in mails[k].labels
    /\ LET email_date == parse_email_date(mails[k].date)
       IN /\ email_date.kind # "none"
          /\ ~CompareRaises(email_date, cutoff_date)
          /\ emails_to_delete' =
                IF Earlier(email_date, cutoff_date)
                THEN Append(emails_to_delete, mails[k])
                ELSE emails_to_delete
    /\ k' = k + 1
    /\ UNCHANGED <<pc, mails, cutoff_date, extVars, aggVars, delVars>>

\* email_date < cutoff_date raises TypeError, which nothing catches
FilterRaise ==
    /\ pc = "filter" /\ k <= Len(mails)
    /\ "CATEGORY_UPDATES" \in mails[k].labels
    /\ LET email_date == parse_email_date(mails[k].date)
       IN email_date.kind # "none" /\ CompareRaises(email_date, cutoff_date)
    /\ pc' = "filter_raised"
    /\ UNCHANGED <<mails, cutoff_date, k, emails_to_delete, extVars, aggVars, delVars>>

FilterReturn ==
    /\ pc = "filter" /\ k > Len(mails)
    /\ pc' = "filter_done"
    /\ UNCHANGED <<mails, cutoff_date, k, emails_to_delete, extVars, aggVars, delVars>>

NextFilter ==
    \/ FilterSkipLabel
    \/ FilterSkipUnparsed
    \/ FilterCompare
    \/ FilterRaise
    \/ FilterReturn

SpecFilter == InitFilter /\ [][NextFilter]_vars

\* the moment a datetime stands for, the machine's zone being UTC
Moment(d) == d.wall - d.off

\* the email is in Updates and its date parses to a moment before the cutoff
Selected(email) ==
    /\ "CATEGORY_UPDATES" \in email.labels
    /\ email.date.kind = "rfc"
    /\ email.date.wall - ZoneOffset(email.date.zone) < Moment(cutoff_date)

\* C9 as stated: the call returns, in input order, exactly the Updates emails
\* whose date parses to a moment before the cutoff, with or without a zone.
C9_FilterSelects ==
    pc \in {"filter_done", "filter_raised"}
    => /\ pc = "filter_done"
       /\ emails_to_delete = SelectSeq(mails, Selected)

----------------------------------------------------------------------------
(* delete_emails_batch (delete_updates.py).                                *)
(* calls records every batchDelete request executed: the ids of its body   *)
(* and whether the service answered (ok) or raised HttpError.  ret is -1   *)
(* until the function returns.                                             *)

\* s[a:b] of Python for 0 <= a <= b: the items a+1 .. min(b, len)
PySlice(s, a, b) == SubSeq(s, a + 1, IF b < Len(s) THEN b ELSE Len(s))

\* email_ids[i:i + batch_size]
Batch == PySlice(email_ids, i, i + batch_size)

\* whether range(0, len(email_ids), batch_size) yields the value i
InRange ==
    \/ batch_size > 0 /\ i < Len(email_ids)
    \/ batch_size < 0 /\ i > Len(email_ids)

InitDelete ==
    /\ pc = "delete"
    /\ email_ids \in {[n \in 1..m |-> n] : m \in 0..MaxIds}
    /\ batch_size \in (0 - 1)..MaxBatch
    /\ dry_run \in BOOLEAN
    /\ i = 0
    /\ deleted_count = 0
    /\ failed_count = 0
    /\ calls = <<>>
    /\ ret = 0 - 1
    /\ ExtIdle /\ AggIdle /\ FltIdle

\* DeleteCall without the dry_run test
DeleteCallNoDryRun ==
    /\ pc = "delete"
    /\ IF email_ids = <<>>
       THEN pc' = "delete_done" /\ ret' = 0
       ELSE IF batch_size = 0
       THEN pc' = "delete_raised" /\ ret' = ret
       ELSE pc' = "delete_loop" /\ ret' = ret
    /\ UNCHANGED <<email_ids, batch_size, dry_run, i, deleted_count, failed_count, calls>>
    /\ UNCHANGED <<extVars, aggVars, fltVars>>

\* the function up to the loop: the two early returns, the counters, and
\* range(), which raises ValueError for a step of zero
DeleteCall ==
    /\ pc = "delete"
    /\ IF email_ids = <<>>
       THEN pc' = "delete_done" /\ ret' = 0
       ELSE IF dry_run
       THEN pc' = "delete_done" /\ ret' = 0
       ELSE IF batch_size = 0
       THEN pc' = "delete_raised" /\ ret' = ret
       ELSE pc' = "delete_loop" /\ ret' = ret
    /\ UNCHANGED <<email_ids, batch_size, dry_run, i, deleted_count, failed_count, calls>>
    /\ UNCHANGED <<extVars, aggVars, fltVars>>

\* batchDelete(...).execute() returns
DeleteBatchOk ==
    /\ pc = "delete_loop" /\ InRange
    /\ calls' = Append(calls, [ids |-> Batch, ok |-> TRUE])
    /\ deleted_count' = deleted_count + Len(Batch)
    /\ i' = i + batch_size
    /\ UNCHANGED <<pc, email_ids, batch_size, dry_run, failed_count, ret>>
    /\ UNCHANGED <<extVars, aggVars, fltVars>>

\* DeleteBatchHttpError leaving the loop, as a break in the handler would
DeleteBatchHttpErrorBreaks ==
    /\ pc = "delete_loop" /\ InRange
    /\ calls' = Append(calls, [ids |-> Batch, ok |-> FALSE])
    /\ failed_count' = failed_count + Len(Batch)
    /\ i' = Len(email_ids)
    /\ UNCHANGED <<pc, email_ids, batch_size, dry_run, deleted_count, ret>>
    /\ UNCHANGED <<extVars, aggVars, fltVars>>

\* batchDelete(...).execute() raises HttpError: counted, and the loop goes on
DeleteBatchHttpError ==
    /\ pc = "delete_loop" /\ InRange
    /\ calls' = Append(calls, [ids |-> Batch, ok |-> FALSE])
    /\ failed_count' = failed_count + Len(Batch)
    /\ i' = i + batch_size
    /\ UNCHANGED <<pc, email_ids, batch_size, dry_run, deleted_count, ret>>
    /\ UNCHANGED <<extVars, aggVars, fltVars>>

\* batchDelete(...).execute() raises anything else, which nothing catches
DeleteBatchOtherError ==
    /\ pc = "delete_loop" /\ InRange
    /\ calls' = Append(calls, [ids |-> Batch, ok |-> FALSE])
    /\ pc' = "delete_raised"
    /\ UNCHANGED <<email_ids, batch_size, dry_run, i, deleted_count, failed_count, ret>>
    /\ UNCHANGED <<extVars, aggVars, fltVars>>

\* the loop is over: return deleted_count
DeleteReturn ==
    /\ pc = "delete_loop" /\ ~InRange
    /\ ret' = deleted_count
    /\ pc' = "delete_done"
    /\ UNCHANGED <<email_ids, batch_size, dry_run, i, deleted_count, failed_count, calls>>
    /\ UNCHANGED <<extVars, aggVars, fltVars>>

NextDelete ==
    \/ DeleteCall
    \/ DeleteBatchOk
    \/ DeleteBatchHttpError
    \/ DeleteBatchOtherError
    \/ DeleteReturn

SpecDelete == InitDelete /\ [][NextDelete]_vars

----------------------------------------------------------------------------
(* Properties of delete_emails_batch (C8, C10).                            *)

RECURSIVE SentIds(_)
SentIds(cs) == IF cs = <<>> THEN <<>> ELSE Head(cs).ids \o SentIds(Tail(cs))

RECURSIVE DeletedIn(_)
DeletedIn(cs) ==
    IF cs = <<>> THEN 0
    ELSE (IF Head(cs).ok THEN Len(Head(cs).ids) ELSE 0) + DeletedIn(Tail(cs))

\* C8: with dry_run=True no batchDelete call is ever made, whatever the ids
\* and the batch_size, and the call returns 0.
C8_DryRunDeletesNothing ==
    dry_run
    => /\ calls = <<>>
       /\ pc \in {"delete", "delete_done"}
       /\ pc = "delete_done" => ret = 0

\* C8 witness: a dry run over some ids has returned, batch_size being 0
C8_Witness ==
    /\ pc = "delete_done"
    /\ dry_run
    /\ Len(email_ids) >= 2
    /\ batch_size = 0
    /\ ret = 0

\* C10: with dry_run=False and batch_size >= 1, when the call returns the
\* batches sent are consecutive slices of at most batch_size ids that
\* together are email_ids, each id once and in order, also when a call
\* raised HttpError; the count returned is the number of ids in the batches
\* whose call succeeded, and deleted plus failed is the number of ids.
C10_BatchesCoverIds ==
    (pc = "delete_done" /\ ~dry_run /\ batch_size >= 1)
    => /\ SentIds(calls) = email_ids
       /\ \A c \in 1..Len(calls) :
            /\ Len(calls[c].ids) >= 1
            /\ Len(calls[c].ids) <= batch_size
            /\ c < Len(calls) => Len(calls[c].ids) = batch_size
       /\ ret = DeletedIn(calls)
       /\ ret + failed_count = Len(email_ids)

\* C10 witness: the first batch failed, later batches were sent, the last one
\* is shorter than batch_size
C10_Witness ==
    /\ pc = "delete_done"
    /\ ~dry_run
    /\ batch_size = 2
    /\ Len(calls) = 3
    /\ ~calls[1].ok /\ calls[2].ok /\ calls[3].ok
    /\ Len(calls[3].ids) = 1
    /\ ret = 3
    /\ failed_count = 2

====
